---- MODULE Spec2Model ----
(***************************************************************************)
(* A model of csv2xlsx.py: the command line program that reads a CSV file  *)
(* with pandas.read_csv and writes it with DataFrame.to_excel(index=False).*)
(*                                                                         *)
(* The state is the process (its argument vector, its position in the      *)
(* script, the local variables of the script and of csv_to_xlsx, standard  *)
(* output, the exit status) and the part of the world the process acts on: *)
(* the files at the paths named on the command line and the condition of   *)
(* the disk.  The two pandas calls are modelled by what they do with their *)
(* default arguments: read_csv parses lines into typed columns, to_excel   *)
(* lays the frame out as the rows of one sheet.                            *)
(***************************************************************************)
EXTENDS Integers, Sequences, FiniteSets, TLC

VARIABLES
    argv,        \* sys.argv: the program name followed by the arguments
    fs,          \* the file system: path -> content
    disk,        \* the condition of the disk the destination is written to
    pc,          \* position of the process in the script
    input_csv,   \* the script's variable input_csv (csv_file in csv_to_xlsx)
    output_xlsx, \* the script's variable output_xlsx (xlsx_file in csv_to_xlsx)
    df,          \* the local df of csv_to_xlsx
    exc,         \* the exception in flight inside the try block
    stdout,      \* the lines printed so far by the running process
    exitStatus,  \* the exit status of the process, once it has exited
    loaderCalls, \* history: calls of pd.read_csv made by the running process
    writerCalls, \* history: calls of df.to_excel made by the running process
    returned,    \* history: the pandas calls that returned without raising
    fs0,         \* history: the file system when the running process started
    rerun,       \* history: TRUE in the second of two invocations in succession
    prev         \* history: what the first invocation left behind

vars == <<argv, fs, disk, pc, input_csv, output_xlsx, df, exc, stdout,
          exitStatus, loaderCalls, writerCalls, returned, fs0, rerun, prev>>

(***************************************************************************)
(* Bounds of the model.                                                    *)
(***************************************************************************)
\* the longest command line tried: arguments after the program name
MaxArgs == 3
\* the largest input tried: header fields plus data fields of a CSV file
MaxFields == 4

(***************************************************************************)
(* The values the model draws its inputs from.                             *)
(***************************************************************************)
ProgName == "csv2xlsx.py"
Paths == {"in.csv", "out.xlsx"}
HeaderNames == {"id", "name"}
CellTexts == {"", "x", "07", "NA"}
DiskConds == {"ok", "readonly", "full"}

NoPath == "<unset>"

SeqsUpTo(S, n) == UNION {[1..k -> S] : k \in 0..n}

\* sys.argv of an invocation with 0..MaxArgs arguments
ArgVectors == {<<ProgName>> \o a : a \in SeqsUpTo(Paths, MaxArgs)}

(***************************************************************************)
(* File contents.  A CSV file is its header line and its data lines, each  *)
(* a sequence of fields; a line of one empty field is a blank line.        *)
(***************************************************************************)
Absent == [kind |-> "absent"]
\* a path whose resolution fails with ENOENT for reading and for writing
\* (a dangling symbolic link into a missing directory)
Dangling == [kind |-> "dangling"]
\* a file that is not delimited text (undecodable bytes)
Garbage == [kind |-> "garbage"]
\* a spreadsheet left by some earlier, unrelated conversion
OldSheet == [kind |-> "xlsx", rows |-> <<<<[t |-> "str", s |-> "old", n |-> 0]>>>>]
\* a destination that was opened for writing and not completed
Partial == [kind |-> "partial"]

MaxDataRows(m) == (MaxFields - m) \div m

CsvFiles ==
    UNION { { [kind |-> "csv", header |-> h, data |-> d] :
                h \in [1..m -> HeaderNames],
                d \in SeqsUpTo([1..m -> CellTexts], MaxDataRows(m)) } :
            m \in 1..MaxFields }

(***************************************************************************)
(* Cell values, as pandas holds them in a frame and as a sheet holds them. *)
(* A string is its text s and, for a column name, the suffix n that        *)
(* read_csv appended to make the name unique ("id.1": s = "id", n = 1;     *)
(* n = 0: no suffix).  A number is its value n.                            *)
(***************************************************************************)
NaN == [t |-> "nan", s |-> "", n |-> 0]
EmptyCell == [t |-> "empty", s |-> "", n |-> 0]
Num(k) == [t |-> "num", s |-> "", n |-> k]
Str(x) == [t |-> "str", s |-> x, n |-> 0]
ColName(x, k) == [t |-> "str", s |-> x, n |-> k]

\* pandas' default na_values, restricted to the texts of the model
NaValues == {"", "NA"}

\* the texts the C parser's integer conversion accepts, and their values
IsNumeric(x) == x \in {"7", "07"}
IntOf(x) == CASE x = "7" -> 7 [] x = "07" -> 7 [] OTHER -> 0

\* skip_blank_lines=True: a line holding nothing is no record
IsBlank(line) == line = <<"">>

RECURSIVE SkipBlank(_)
SkipBlank(lines) ==
    IF lines = <<>> THEN <<>>
    ELSE IF IsBlank(Head(lines)) THEN SkipBlank(Tail(lines))
    ELSE <<Head(lines)>> \o SkipBlank(Tail(lines))

\* mangle_dupe_cols: the k-th repetition of a name gets the suffix .k
DupCount(header, i) == Cardinality({j \in 1..(i - 1) : header[j] = header[i]})
MangleNames(header) ==
    [i \in 1..Len(header) |-> ColName(header[i], DupCount(header, i))]

\* dtype inference of one column: numeric when every cell that is not NA
\* converts to a number, object (strings) otherwise
ColumnIsNumeric(lines, j) ==
    \A i \in 1..Len(lines) : lines[i][j] \in NaValues \/ IsNumeric(lines[i][j])

InferCell(lines, i, j) ==
    IF lines[i][j] \in NaValues THEN NaN
    ELSE IF ColumnIsNumeric(lines, j) THEN Num(IntOf(lines[i][j]))
    ELSE Str(lines[i][j])

\* pd.read_csv(path) on a file that parses: header=0, default inference
ParseCsv(file) ==
    LET lines == SkipBlank(file.data)
        m == Len(file.header)
    IN [columns |-> MangleNames(file.header),
        rows |-> [i \in 1..Len(lines) |-> [j \in 1..m |-> InferCell(lines, i, j)]]]

NoFrame == [columns |-> <<>>, rows |-> <<>>]

(***************************************************************************)
(* Exceptions.  FileNotFoundError is the one class the first handler       *)
(* names; every other class raised here derives from Exception.            *)
(***************************************************************************)
NoExc == [type |-> "none", desc |-> ""]
Raise(type, desc) == [type |-> type, desc |-> desc]

\* pd.read_csv(csv_file): the frame, or the exception it raises
ReadCsv(files, path) ==
    LET f == files[path] IN
    CASE f.kind \in {"absent", "dangling"} ->
            [ok |-> FALSE, df |-> NoFrame,
             exc |-> Raise("FileNotFoundError", "No such file or directory")]
      [] f.kind = "csv" ->
            [ok |-> TRUE, df |-> ParseCsv(f), exc |-> NoExc]
      [] f.kind = "partial" ->
            [ok |-> FALSE, df |-> NoFrame,
             exc |-> Raise("EmptyDataError", "No columns to parse from file")]
      [] OTHER ->
            [ok |-> FALSE, df |-> NoFrame,
             exc |-> Raise("UnicodeDecodeError", "codec can't decode byte")]

\* mutant: the index argument left out of the call (pandas' default)
IndexArg_Omitted == TRUE

\* the index argument of the to_excel call
IndexArg == FALSE

ExcelCell(v) == IF v.t = "nan" THEN EmptyCell ELSE v

\* the rows of the sheet to_excel lays out: the column names, then the
\* frame's rows; with index=True a leading column holding the row labels
SheetRows(frame, index) ==
    LET hdr == IF index THEN <<EmptyCell>> \o frame.columns ELSE frame.columns
        body == [i \in 1..Len(frame.rows) |->
                   LET r == [j \in 1..Len(frame.rows[i]) |-> ExcelCell(frame.rows[i][j])]
                   IN IF index THEN <<Num(i - 1)>> \o r ELSE r]
    IN <<hdr>> \o body

Sheet(frame, index) == [kind |-> "xlsx", rows |-> SheetRows(frame, index)]

\* mutant: the destination opened for exclusive creation, so that an
\* existing file is refused instead of overwritten
ToExcel_Exclusive(files, cond, frame, path, index) ==
    CASE files[path].kind = "dangling" ->
            [files |-> files,
             exc |-> Raise("FileNotFoundError", "No such file or directory")]
      [] files[path].kind # "absent" ->
            [files |-> files,
             exc |-> Raise("FileExistsError", "File exists")]
      [] cond = "readonly" ->
            [files |-> files,
             exc |-> Raise("PermissionError", "Permission denied")]
      [] cond = "full" ->
            [files |-> [files EXCEPT ![path] = Partial],
             exc |-> Raise("OSError", "No space left on device")]
      [] OTHER ->
            [files |-> [files EXCEPT ![path] = Sheet(frame, index)],
             exc |-> NoExc]

\* df.to_excel(xlsx_file, index=...): the file system it leaves and the
\* exception it raises.  The destination is opened for writing ("wb") before
\* any cell is written: it is created or truncated at that point.
ToExcel(files, cond, frame, path, index) ==
    CASE files[path].kind = "dangling" ->
            [files |-> files,
             exc |-> Raise("FileNotFoundError", "No such file or directory")]
      [] cond = "readonly" ->
            [files |-> files,
             exc |-> Raise("PermissionError", "Permission denied")]
      [] cond = "full" ->
            [files |-> [files EXCEPT ![path] = Partial],
             exc |-> Raise("OSError", "No space left on device")]
      [] OTHER ->
            [files |-> [files EXCEPT ![path] = Sheet(frame, index)],
             exc |-> NoExc]

(***************************************************************************)
(* The lines the program prints.  a and b are the paths a line names.      *)
(***************************************************************************)
UsageMsg == [kind |-> "usage", a |-> NoPath, b |-> NoPath, desc |-> ""]
InputEcho(p) == [kind |-> "input", a |-> p, b |-> NoPath, desc |-> ""]
OutputEcho(p) == [kind |-> "output", a |-> p, b |-> NoPath, desc |-> ""]
SuccessMsg(c, x) == [kind |-> "success", a |-> c, b |-> x, desc |-> ""]
NotFoundMsg(c) == [kind |-> "notfound", a |-> c, b |-> NoPath, desc |-> ""]
ErrorMsg(e) == [kind |-> "error", a |-> NoPath, b |-> NoPath, desc |-> e.desc]

OutcomeKinds == {"success", "notfound", "error"}

(***************************************************************************)
(* The initial states: a process about to run the script, in a world where *)
(* the input path holds nothing, garbage or a CSV file, the output path    *)
(* holds nothing, an old spreadsheet or a dangling link.                   *)
(***************************************************************************)
InputContents == {Absent, Garbage} \cup CsvFiles
OutputContents == {Absent, OldSheet, Dangling}

Init ==
    /\ argv \in ArgVectors
    /\ fs \in {[p \in Paths |-> IF p = "in.csv" THEN c ELSE o] :
                 c \in InputContents, o \in OutputContents}
    /\ disk \in DiskConds
    /\ pc = "start"
    /\ input_csv = NoPath
    /\ output_xlsx = NoPath
    /\ df = NoFrame
    /\ exc = NoExc
    /\ stdout = <<>>
    /\ exitStatus = -1
    /\ loaderCalls = 0
    /\ writerCalls = 0
    /\ returned = {}
    /\ fs0 = fs
    /\ rerun = FALSE
    /\ prev = [before |-> fs, after |-> fs, stdout |-> <<>>]

(***************************************************************************)
(* The script, lines 28-45.                                                *)
(***************************************************************************)
\* mutant: only too few arguments are refused
WrongArgCount_TooFew(av) == Len(av) < 3

\* if len(sys.argv) != 3
WrongArgCount(av) == Len(av) # 3

\* print the usage line and sys.exit(1)
UsageExit ==
    /\ pc = "start"
    /\ WrongArgCount(argv)
    /\ stdout' = Append(stdout, UsageMsg)
    /\ exitStatus' = 1
    /\ pc' = "exited"
    /\ UNCHANGED <<argv, fs, disk, input_csv, output_xlsx, df, exc,
                   loaderCalls, writerCalls, returned, fs0, rerun, prev>>

\* input_csv = sys.argv[1]; output_xlsx = sys.argv[2] (Python counts from 0)
AssignArgs ==
    /\ pc = "start"
    /\ ~WrongArgCount(argv)
    /\ input_csv' = argv[2]
    /\ output_xlsx' = argv[3]
    /\ pc' = "echo"
    /\ UNCHANGED <<argv, fs, disk, df, exc, stdout, exitStatus,
                   loaderCalls, writerCalls, returned, fs0, rerun, prev>>

\* mutant: the echo of the output path is missing
Echo_InputOnly ==
    /\ pc = "echo"
    /\ stdout' = stdout \o <<InputEcho(input_csv)>>
    /\ pc' = "load"
    /\ UNCHANGED <<argv, fs, disk, input_csv, output_xlsx, df, exc, exitStatus,
                   loaderCalls, writerCalls, returned, fs0, rerun, prev>>

\* print("input =" + input_csv); print("output =" + output_xlsx)
Echo ==
    /\ pc = "echo"
    /\ stdout' = stdout \o <<InputEcho(input_csv), OutputEcho(output_xlsx)>>
    /\ pc' = "load"
    /\ UNCHANGED <<argv, fs, disk, input_csv, output_xlsx, df, exc, exitStatus,
                   loaderCalls, writerCalls, returned, fs0, rerun, prev>>

(***************************************************************************)
(* csv_to_xlsx(input_csv, output_xlsx), lines 14-26.                       *)
(***************************************************************************)
\* df = pd.read_csv(csv_file), inside the try
Load ==
    /\ pc = "load"
    /\ LET r == ReadCsv(fs, input_csv) IN
         /\ df' = r.df
         /\ exc' = r.exc
         /\ pc' = IF r.ok THEN "write" ELSE "raised"
         /\ returned' = IF r.ok THEN returned \cup {"read_csv"} ELSE returned
    /\ loaderCalls' = loaderCalls + 1
    /\ UNCHANGED <<argv, fs, disk, input_csv, output_xlsx, stdout, exitStatus,
                   writerCalls, fs0, rerun, prev>>

\* df.to_excel(xlsx_file, index=False), inside the try
Write ==
    /\ pc = "write"
    /\ LET r == ToExcel(fs, disk, df, output_xlsx, IndexArg) IN
         /\ fs' = r.files
         /\ exc' = r.exc
         /\ pc' = IF r.exc = NoExc THEN "print_ok" ELSE "raised"
         /\ returned' = IF r.exc = NoExc THEN returned \cup {"to_excel"} ELSE returned
    /\ writerCalls' = writerCalls + 1
    /\ UNCHANGED <<argv, disk, input_csv, output_xlsx, df, stdout, exitStatus,
                   loaderCalls, fs0, rerun, prev>>

\* print(f"Successfully converted '{csv_file}' to '{xlsx_file}'")
PrintSuccess ==
    /\ pc = "print_ok"
    /\ stdout' = Append(stdout, SuccessMsg(input_csv, output_xlsx))
    /\ pc' = "return"
    /\ UNCHANGED <<argv, fs, disk, input_csv, output_xlsx, df, exc, exitStatus,
                   loaderCalls, writerCalls, returned, fs0, rerun, prev>>

\* except FileNotFoundError: the clause matches whichever statement of the
\* try block raised
MatchesFileNotFound(e) == e.type = "FileNotFoundError"

\* mutant: the not-found line names the destination
NotFoundNames_Destination(c, x) == x

\* the path the not-found line names
NotFoundNames(c, x) == c

ExceptFileNotFound ==
    /\ pc = "raised"
    /\ MatchesFileNotFound(exc)
    /\ stdout' = Append(stdout, NotFoundMsg(NotFoundNames(input_csv, output_xlsx)))
    /\ exc' = NoExc
    /\ pc' = "return"
    /\ UNCHANGED <<argv, fs, disk, input_csv, output_xlsx, df, exitStatus,
                   loaderCalls, writerCalls, returned, fs0, rerun, prev>>

\* mutant: a handler for ValueError only (the parser's and the decoder's errors)
MatchesException_ValueError(e) == e.type \in {"UnicodeDecodeError", "EmptyDataError"}

\* mutant: the handler reports the failure and tries the conversion again
ExceptException_Retry ==
    /\ pc = "raised"
    /\ ~(exc.type = "FileNotFoundError")
    /\ exc.type # "none"
    /\ stdout' = Append(stdout, ErrorMsg(exc))
    /\ exc' = NoExc
    /\ pc' = "load"
    /\ UNCHANGED <<argv, fs, disk, input_csv, output_xlsx, df, exitStatus,
                   loaderCalls, writerCalls, returned, fs0, rerun, prev>>

\* except Exception as e: every other exception raised by the two calls
MatchesException(e) == e.type # "none"

ExceptException ==
    /\ pc = "raised"
    /\ ~MatchesFileNotFound(exc)
    /\ MatchesException(exc)
    /\ stdout' = Append(stdout, ErrorMsg(exc))
    /\ exc' = NoExc
    /\ pc' = "return"
    /\ UNCHANGED <<argv, fs, disk, input_csv, output_xlsx, df, exitStatus,
                   loaderCalls, writerCalls, returned, fs0, rerun, prev>>

\* csv_to_xlsx returns, the script ends: exit status 0
Finish ==
    /\ pc = "return"
    /\ exitStatus' = 0
    /\ pc' = "exited"
    /\ UNCHANGED <<argv, fs, disk, input_csv, output_xlsx, df, exc, stdout,
                   loaderCalls, writerCalls, returned, fs0, rerun, prev>>

(***************************************************************************)
(* The same command line run a second time, right after the first run      *)
(* ended: a new process, the file system as the first one left it.         *)
(***************************************************************************)
Reinvoke ==
    /\ pc = "exited"
    /\ exitStatus = 0
    /\ ~rerun
    /\ rerun' = TRUE
    /\ prev' = [before |-> fs0, after |-> fs, stdout |-> stdout]
    /\ fs0' = fs
    /\ pc' = "start"
    /\ input_csv' = NoPath
    /\ output_xlsx' = NoPath
    /\ df' = NoFrame
    /\ exc' = NoExc
    /\ stdout' = <<>>
    /\ exitStatus' = -1
    /\ loaderCalls' = 0
    /\ writerCalls' = 0
    /\ returned' = {}
    /\ UNCHANGED <<argv, fs, disk>>

\* the function csv_to_xlsx, step by step
csv_to_xlsx ==
    \/ Load
    \/ Write
    \/ PrintSuccess
    \/ ExceptFileNotFound
    \/ ExceptException

\* the script under if __name__ == "__main__", step by step
main ==
    \/ UsageExit
    \/ AssignArgs
    \/ Echo
    \/ csv_to_xlsx
    \/ Finish

Next ==
    \/ main
    \/ Reinvoke

Spec == Init /\ [][Next]_vars

(***************************************************************************)
(* Vocabulary of the properties.                                           *)
(***************************************************************************)
TwoArgs == Len(argv) - 1 = 2
Exited == pc = "exited"
Src == argv[2]
Dst == argv[3]
LastKind(out) == IF out = <<>> THEN "none" ELSE out[Len(out)].kind
Succeeded == Exited /\ LastKind(stdout) = "success"
SourceMissing == fs0[Src].kind \in {"absent", "dangling"}
HasKind(out, k) == \E i \in 1..Len(out) : out[i].kind = k

(***************************************************************************)
(* C1.  With an argument count other than 2 the process prints the usage   *)
(* line and exits with status 1: it never calls the Loader or the Writer,  *)
(* prints no echo and no outcome line, and touches no file.  With exactly  *)
(* 2 arguments the usage line is never printed.                            *)
(***************************************************************************)
C1_UsageIffWrongCount ==
    /\ (~TwoArgs /\ pc # "start") =>
          /\ Exited
          /\ exitStatus = 1
          /\ stdout = <<UsageMsg>>
    /\ ~TwoArgs => loaderCalls = 0 /\ writerCalls = 0 /\ fs = fs0
    /\ TwoArgs => ~HasKind(stdout, "usage")

C1_Witness ==
    Exited /\ Len(argv) - 1 = 3 /\ exitStatus = 1 /\ stdout = <<UsageMsg>>

(***************************************************************************)
(* C2.  With exactly 2 arguments no exception raised by the Loader or the  *)
(* Writer leaves csv_to_xlsx: one of the two handlers takes it, the        *)
(* process goes on to its end and exits with status 0.  Status 1 is        *)
(* reached with a wrong argument count only.                               *)
(***************************************************************************)
C2_ExitZeroWithTwoArgs ==
    /\ (TwoArgs /\ ~Exited) => ENABLED Next
    /\ (TwoArgs /\ Exited) => exitStatus = 0
    /\ exitStatus = 1 => ~TwoArgs

C2_Witness ==
    /\ Exited /\ TwoArgs /\ exitStatus = 0
    /\ writerCalls = 1
    /\ LastKind(stdout) = "error"

(***************************************************************************)
(* C3.  When the source path does not resolve to an existing file the run  *)
(* prints the not-found line naming the source path, never calls the       *)
(* Writer and leaves every file, the destination included, as it was.      *)
(***************************************************************************)
C3_MissingSourceLeavesDestination ==
    (TwoArgs /\ SourceMissing) =>
       /\ writerCalls = 0
       /\ fs = fs0
       /\ Exited => stdout = <<InputEcho(Src), OutputEcho(Dst), NotFoundMsg(Src)>>

C3_Witness ==
    /\ Exited /\ TwoArgs /\ SourceMissing
    /\ Src # Dst
    /\ fs[Dst] = OldSheet

(***************************************************************************)
(* C4.  A failure raised by the Writer after a successful load is reported *)
(* with the generic line carrying the cause's description; the not-found   *)
(* line is printed only for the Loader's failure to find the source.       *)
(***************************************************************************)
C4_WriterFailureIsGeneric ==
    /\ (pc \in {"return", "exited"} /\ writerCalls = 1 /\ LastKind(stdout) # "success")
          => LastKind(stdout) = "error"
    /\ HasKind(stdout, "notfound") => (writerCalls = 0 /\ SourceMissing)

(***************************************************************************)
(* C5.  When the source exists and the conversion fails (in the load or    *)
(* part-way through the write) with the generic line printed, the          *)
(* destination ends as the untouched file it was before the run, or        *)
(* absent: never partially written.  (Which line a failed write prints is  *)
(* C4's matter; this is the claim's statement about the destination.)      *)
(***************************************************************************)
C5_NoPartialDestination ==
    (Exited /\ TwoArgs /\ Src # Dst /\ ~SourceMissing /\ LastKind(stdout) = "error") =>
       (fs[Dst] = fs0[Dst] \/ fs[Dst] = Absent)

\* the sheet cell c holds the value read_csv gives the field text txt
CellHolds(c, txt) ==
    \/ c = EmptyCell /\ txt \in NaValues
    \/ c.t = "num" /\ IsNumeric(txt) /\ c.n = IntOf(txt)
    \/ c.t = "str" /\ c.s = txt /\ txt \notin NaValues

C7_LinearPipeline ==
    /\ loaderCalls \in {0, 1}
    /\ writerCalls \in {0, 1}
    /\ loaderCalls = 1 => (TwoArgs /\ pc \notin {"start", "echo", "load"})
    /\ loaderCalls = 0 => pc \in {"start", "echo", "load", "exited"}
    /\ writerCalls = 1 =>
          /\ loaderCalls = 1
          /\ "read_csv" \in returned
          /\ fs0[Src].kind = "csv"
          /\ df = ParseCsv(fs0[Src])
          /\ pc \notin {"write"}
    /\ (\E k \in OutcomeKinds : HasKind(stdout, k)) =>
          (loaderCalls = 1 /\ pc \in {"return", "exited"})
    /\ HasKind(stdout, "success") => writerCalls = 1
    /\ pc \in {"raised", "print_ok"} => ~(\E k \in OutcomeKinds : HasKind(stdout, k))

C7_Witness ==
    /\ Exited /\ TwoArgs
    /\ loaderCalls = 1 /\ writerCalls = 1
    /\ LastKind(stdout) = "error"

\* a pandas call completed: it returned instead of raising
LoadCompleted == "read_csv" \in returned
WriteCompleted == "to_excel" \in returned

(***************************************************************************)
(* C8.  With exactly 2 arguments standard output holds the echo of the     *)
(* input path and of the output path, printed before the Loader is called, *)
(* and then exactly one outcome line: success, not-found or generic        *)
(* failure.  The success line, naming both paths, is printed if and only   *)
(* if the load returned a frame and the write completed.                   *)
(***************************************************************************)
C8_EchoThenOneOutcome ==
    TwoArgs =>
       /\ loaderCalls = 1 =>
             (Len(stdout) >= 2 /\ stdout[1] = InputEcho(Src) /\ stdout[2] = OutputEcho(Dst))
       /\ Exited =>
             /\ Len(stdout) = 3
             /\ stdout[3].kind \in OutcomeKinds
             /\ (stdout[3] = SuccessMsg(Src, Dst)) <=> (LoadCompleted /\ WriteCompleted)
             /\ stdout[3].kind = "success" => stdout[3] = SuccessMsg(Src, Dst)

C8_Witness ==
    /\ Exited /\ TwoArgs
    /\ stdout = <<InputEcho("in.csv"), OutputEcho("out.xlsx"),
                  SuccessMsg("in.csv", "out.xlsx")>>

\* the first of the two runs, as the second run finds it
FirstRunSucceeded == rerun /\ LastKind(prev.stdout) = "success"
InputUnchanged == prev.after[Src] = prev.before[Src]

(***************************************************************************)
(* C9.  Converting the same unchanged input to the same destination twice  *)
(* in succession: when the first run succeeded and left the input as it    *)
(* was, the second run succeeds too, overwriting the file the first run    *)
(* created, and leaves a destination equal to the one the first run left.  *)
(***************************************************************************)
C9_SecondRunIdempotent ==
    (Exited /\ TwoArgs /\ FirstRunSucceeded /\ InputUnchanged) =>
       /\ LastKind(stdout) = "success"
       /\ writerCalls = 1
       /\ fs0[Dst] = prev.after[Dst]
       /\ fs[Dst] = prev.after[Dst]

C9_Witness ==
    /\ Exited /\ TwoArgs /\ FirstRunSucceeded /\ InputUnchanged
    /\ prev.before[Dst] = Absent
    /\ Len(fs[Src].data) >= 2
    /\ fs[Dst].kind = "xlsx"

\* pd.read_excel on the produced sheet: an empty cell is read as NaN
ReadExcel(sheet) ==
    [columns |-> sheet.rows[1],
     rows |-> [i \in 1..(Len(sheet.rows) - 1) |->
                 [j \in 1..Len(sheet.rows[i + 1]) |->
                    IF sheet.rows[i + 1][j] = EmptyCell THEN NaN
                    ELSE sheet.rows[i + 1][j]]]]

\* a text field, by its value
ValueOf(txt) == IF IsNumeric(txt) THEN Num(IntOf(txt)) ELSE Str(txt)

\* DataFrame.to_csv of one cell (na_rep=""), by its value
CsvField(v) ==
    CASE v.t = "nan" -> Str("")
      [] v.t = "str" -> ValueOf(v.s)
      [] OTHER -> v

\* the records of the text written back from the sheet, by value
RoundTripRecords(sheet) ==
    LET frame == ReadExcel(sheet)
    IN [i \in 1..Len(frame.rows) |->
          [j \in 1..Len(frame.rows[i]) |-> CsvField(frame.rows[i][j])]]

\* the records of the input file, by value
InputRecords(file) ==
    LET recs == SkipBlank(file.data)
    IN [i \in 1..Len(recs) |-> [j \in 1..Len(recs[i]) |-> ValueOf(recs[i][j])]]

(***************************************************************************)
(* C10.  Round trip: reading the sheet a successful run produced and       *)
(* writing it back as delimited text gives the records of the input,       *)
(* value for value (a number counts by its value, not by its digits),      *)
(* cells that the Loader reads as null included.                           *)
(***************************************************************************)
C10_RoundTrip ==
    (Succeeded /\ Src # Dst) => RoundTripRecords(fs[Dst]) = InputRecords(fs0[Src])

====
